---- MODULE Spec2Model ----
(***************************************************************************)
(* A model of target-lightspeed-rseries: the OAuth token lifecycle         *)
(* (auth.py), the rate-limited retrying request executor (client.py) and   *)
(* the order submission workflow (sinks.py).                               *)
(*                                                                         *)
(* Time.  The wall clock `now` counts ticks of half a second, the value of *)
(* MIN_REQUEST_INTERVAL, so that the rate gate and the second-granular     *)
(* token arithmetic read the same clock.  Durations are ticks; the token   *)
(* expiry kept in the configuration is an absolute time in whole seconds,  *)
(* as round(datetime.utcnow().timestamp()) makes it.                       *)
(*                                                                         *)
(* Optional values (a missing key, None) are sets of at most one element.  *)
(***************************************************************************)
EXTENDS Integers, Sequences, FiniteSets, TLC

VARIABLES
    now,          \* wall clock, in ticks
    config,       \* target._config: access_token, refresh_token, expires_in
    file,         \* the persisted credential file (_config_file_path)
    valid_out,    \* what is_token_valid returned, once it was called
    retry_after,  \* the Retry-After header of a 429 response
    wait_out,     \* what the two Retry-After parsers returned for it
    apc,          \* where the authenticator is: idle, token_try, returned, raised
    atries,       \* tries of _make_token_request's backoff loop
    astart,       \* the clock when that backoff loop started
    request_time, \* update_access_token's request_time
    aret,         \* how the last auth_headers call ended
    auth_state,   \* the authenticator's state dict (auth_error_response)
    sink_auth_state, \* the sink's auth_state attribute, if it has one
    token_posts,  \* POSTs sent to the OAuth endpoint by the current call
    token_response, \* what the OAuth endpoint answered last in the current call
    creds_before, \* config and file as they were when auth_headers was entered
    auth_calls,   \* how the auth_headers calls so far ended, in order
    jitter,       \* the share of each backoff value that full_jitter draws
    last_request_time, \* LightspeedRSeriesSink._last_request_time
    rpc,          \* where request_api is: idle, try, headers, returned, raised
    rtries,       \* tries of _request's backoff loop
    rstart,       \* the clock when that backoff loop started
    relapsed,     \* elapsed, as the backoff loop read it when the try began
    rret,         \* how the last request_api call ended
    http_count,   \* HTTP requests sent to the resource API by the current call
    http_start,   \* when the last HTTP request to the resource API started
    http_end,     \* when the last HTTP request to the resource API ended, with
                  \* a response or an exception
    http_gap,     \* the time between the starts of the last two, capped at
                  \* MIN_REQUEST_INTERVAL
    last_attempt, \* what the last HTTP request of the current call met
    faults,       \* resource API answers other than 2xx so far, all calls
    rcalls,       \* request_api calls completed
    record,       \* the stream record handed to the BuyOrders sink
    buyorders_shop_id, \* config.get("buyorders_shop_id")
    opc,          \* where the sink is: idle, record, rejected, mapped, lines, done
    payload,      \* what preprocess_record returned
    order_response, \* what the order's request_api call returned or raised
    order_id,     \* upsert_record's order_id, once extracted
    idx,          \* line items the loop has gone through
    order_line_payload, \* the item the loop's order_line_payload was built
                  \* from; None while the name is unbound
    lines_success,
    lines_failed,
    state_updates,\* upsert_record's state_updates
    result,       \* what upsert_record returned
    requests,     \* request_api calls of the record: 0 for the order, i for
                  \* line item i
    line_results, \* how each line item gone through ended
    lines_log,    \* the counts logged when the loop is over
    record_no,    \* records handed to the sink so far
    issued        \* every request_api call so far, as <<record, item>>, item 0
                  \* for the order

pureVars == <<valid_out, retry_after, wait_out>>
authVars == <<apc, atries, astart, request_time, aret, auth_state,
              sink_auth_state, token_posts,
              token_response, creds_before, auth_calls>>
reqVars == <<last_request_time, rpc, rtries, rstart, relapsed, rret, http_count,
             http_start, http_end, http_gap, last_attempt, faults, rcalls>>
orderVars == <<record, buyorders_shop_id, opc, payload, order_response, order_id, idx,
               order_line_payload, lines_success, lines_failed, state_updates,
               result, requests, line_results, lines_log, record_no, issued>>
vars == <<now, config, file, jitter, pureVars, authVars, reqVars, orderVars>>

----------------------------------------------------------------------------
(* Optional values *)

None == {}
Some(x) == {x}
Get(o) == CHOOSE x \in o : TRUE
\* Python truthiness of an optional string: None and "" are falsy
Truthy(o) == o # None /\ o # Some("")

Max(a, b) == IF a >= b THEN a ELSE b
Min(a, b) == IF a <= b THEN a ELSE b

----------------------------------------------------------------------------
(* Program constants *)

TicksPerSecond == 2
MIN_REQUEST_INTERVAL == 1          \* 0.5 s, in ticks
DEFAULT_RETRY_AFTER == 60          \* client.py, seconds
MAX_RETRY_TIME == 300              \* max_time of _request's backoff, seconds
BACKOFF_FACTOR == 2
MAX_RETRY_TRIES == 5               \* max_tries of _request's backoff
TOKEN_BUFFER_SECONDS == 120
DEFAULT_WAIT_TIME == 60            \* auth.py, seconds
DEFAULT_TOKEN_EXPIRATION == 3600
TOKEN_MAX_TRIES == 10              \* max_tries of _make_token_request's backoff
TOKEN_MAX_TIME == 300              \* max_time of _make_token_request's backoff

(* Bounds of the model *)

BaseTime == 100                    \* the clock's first value, seconds
MaxNowOffset == 3                  \* start times explored, ticks past BaseTime
MaxDelta == 2                      \* expiry values explored around the buffer

Sec(n) == n * TicksPerSecond

----------------------------------------------------------------------------
(* The clock as the code reads it *)

\* round(datetime.utcnow().timestamp()): whole seconds, halves to the even one
utcnow_seconds(t) ==
    LET q == t \div TicksPerSecond
    IN  IF t % TicksPerSecond = 0 THEN q
        ELSE IF q % 2 = 0 THEN q ELSE q + 1

----------------------------------------------------------------------------
(* auth.py: token validity *)

is_token_valid_strict(cfg, t) ==
    IF ~Truthy(cfg.access_token) THEN FALSE
    ELSE IF cfg.expires_in = None THEN FALSE
    ELSE (Get(cfg.expires_in) - utcnow_seconds(t)) > TOKEN_BUFFER_SECONDS

\* a validity check that never finds the token good
is_token_valid_never(cfg, t) == FALSE

is_token_valid(cfg, t) ==
    IF ~Truthy(cfg.access_token) THEN FALSE
    ELSE IF cfg.expires_in = None THEN FALSE
    ELSE (Get(cfg.expires_in) - utcnow_seconds(t)) >= TOKEN_BUFFER_SECONDS

----------------------------------------------------------------------------
(* Retry-After parsing.  A header value is abstracted by what the parsers  *)
(* can tell apart: an integer literal, an HTTP date (its instant in        *)
(* seconds and its zone), or text that is neither.                         *)

IntHeader(n) == [kind |-> "int", n |-> n, zone |-> ""]
DateHeader(ts, zone) == [kind |-> "date", n |-> ts, zone |-> zone]
EmptyHeader == [kind |-> "empty", n |-> 0, zone |-> ""]
GarbageHeader == [kind |-> "garbage", n |-> 0, zone |-> ""]

\* email.utils.parsedate_to_datetime: raises on text that is no date; a date
\* with zone -0000 becomes a naive datetime, any other zone an aware one
parsedate_to_datetime(v) ==
    IF v.kind = "date"
    THEN [ok |-> TRUE, ticks |-> Sec(v.n), aware |-> v.zone # "-0000"]
    ELSE [ok |-> FALSE, ticks |-> 0, aware |-> FALSE]

\* (retry_datetime - datetime.utcnow()).total_seconds(): utcnow() is naive,
\* and subtracting a naive datetime from an aware one raises TypeError
datetime_minus_utcnow(dt, t) ==
    IF dt.aware THEN [ok |-> FALSE, ticks |-> 0]
    ELSE [ok |-> TRUE, ticks |-> dt.ticks - t]

\* int(x) of a float number of seconds held in ticks: truncation toward zero
int_seconds(ticks) ==
    IF ticks >= 0 THEN Sec(ticks \div TicksPerSecond)
    ELSE -Sec((-ticks) \div TicksPerSecond)

\* auth.py _calculate_wait_time, result in ticks
_calculate_wait_time(ra, t) ==
    IF ra = None \/ Get(ra).kind = "empty" THEN Sec(DEFAULT_WAIT_TIME)
    ELSE IF Get(ra).kind = "int" THEN Sec(Get(ra).n)
    ELSE LET dt == parsedate_to_datetime(Get(ra))
         IN  IF ~dt.ok THEN Sec(DEFAULT_WAIT_TIME)
             ELSE LET d == datetime_minus_utcnow(dt, t)
                  IN  IF ~d.ok THEN Sec(DEFAULT_WAIT_TIME)
                      ELSE Max(Sec(DEFAULT_WAIT_TIME), d.ticks)

\* client.py _parse_retry_after, result in ticks
_parse_retry_after(ra, t) ==
    IF ra = None \/ Get(ra).kind = "empty" THEN Sec(DEFAULT_RETRY_AFTER)
    ELSE IF Get(ra).kind = "int" THEN Sec(Get(ra).n)
    ELSE LET dt == parsedate_to_datetime(Get(ra))
         IN  IF ~dt.ok THEN Sec(DEFAULT_RETRY_AFTER)
             ELSE LET d == datetime_minus_utcnow(dt, t)
                  IN  IF ~d.ok THEN Sec(DEFAULT_RETRY_AFTER)
                      ELSE int_seconds(Max(Sec(DEFAULT_RETRY_AFTER), d.ticks))

----------------------------------------------------------------------------
(* auth.py: the OAuth endpoint's answers, as far as the code tells them    *)
(* apart.  kind "exception" is requests.post raising (a network failure).  *)

AbsentExpiry == [kind |-> "absent", n |-> 0]     \* no expires_in key
NullExpiry == [kind |-> "null", n |-> 0]         \* "expires_in": null
TextExpiry == [kind |-> "text", n |-> 0]         \* not an integer literal
IntExpiry(n) == [kind |-> "int", n |-> n]

TokenOk(rt, e) ==
    [kind |-> "response", status |-> 200, body |-> "token", access_token |-> "tok1",
     refresh_token |-> rt, expires |-> e, retry_after |-> None]
TokenNoop ==
    [kind |-> "response", status |-> 200, body |-> "not_expired", access_token |-> "",
     refresh_token |-> None, expires |-> AbsentExpiry, retry_after |-> None]
TokenError ==
    [kind |-> "response", status |-> 400, body |-> "error", access_token |-> "",
     refresh_token |-> None, expires |-> AbsentExpiry, retry_after |-> None]
TokenNotModified ==
    [kind |-> "response", status |-> 304, body |-> "", access_token |-> "",
     refresh_token |-> None, expires |-> AbsentExpiry, retry_after |-> None]
Token429(ra) ==
    [kind |-> "response", status |-> 429, body |-> "", access_token |-> "",
     refresh_token |-> None, expires |-> AbsentExpiry, retry_after |-> ra]
TokenException ==
    [kind |-> "exception", status |-> 0, body |-> "", access_token |-> "",
     refresh_token |-> None, expires |-> AbsentExpiry, retry_after |-> None]

NoTokenResponse ==
    [kind |-> "none", status |-> 0, body |-> "", access_token |-> "",
     refresh_token |-> None, expires |-> AbsentExpiry, retry_after |-> None]

TokenFinalResponses ==
    {TokenOk(rt, e) : rt \in {None, Some("ref1")},
                      e \in {AbsentExpiry, NullExpiry, TextExpiry,
                             IntExpiry(60), IntExpiry(180)}}
    \cup {TokenNoop, TokenError, TokenNotModified, TokenException}

Token429Headers == {None, Some(IntHeader(0)), Some(IntHeader(120))}

PostDurations == {0, Sec(1)}

NoReturn == [path |-> "none", token |-> None, err |-> "", expires_used |-> 0]
Returned(path, token, used) ==
    [path |-> path, token |-> token, err |-> "", expires_used |-> used]
Raised(err) == [path |-> "raised", token |-> None, err |-> err, expires_used |-> 0]

\* the sink's auth_state attribute: the sink classes set none, so the
\* attribute is there only if a base class brings it
NoAttribute == [present |-> FALSE, state |-> None]
Attribute(d) == [present |-> TRUE, state |-> d]
SinkAuthStateInputs == {NoAttribute, Attribute(None)}

\* getattr(self, "auth_state", {}): the attribute's dict, or a new empty one
getattr_auth_state(a) == IF a.present THEN a.state ELSE None

\* self.state.update({"auth_error_response": error_response}), seen from the
\* sink: the dict written is the sink's only if the sink has the attribute
state_update(a, error_response) ==
    IF a.present THEN Attribute(Some(error_response)) ELSE a

\* raise_for_status raises for 4xx and 5xx only
raise_for_status(r) == r.status >= 400

AuthIdle ==
    /\ apc = "idle"
    /\ atries = 0
    /\ astart = 0
    /\ request_time = 0
    /\ aret = NoReturn
    /\ auth_state = None
    /\ token_posts = 0
    /\ token_response = NoTokenResponse
    /\ creds_before = None
    /\ auth_calls = <<>>

RECURSIVE Pow2(_)
Pow2(n) == IF n <= 0 THEN 1 ELSE 2 * Pow2(n - 1)

\* backoff.expo(factor=2): the wait before try number tries + 1, in ticks
expo(tries) == Sec(BACKOFF_FACTOR * Pow2(tries - 1))

\* backoff's _next_wait: the jittered value, but no longer than the time left.
\* full_jitter draws uniformly from [0, value]; a run explores one end of it.
next_wait(value, elapsed, max_time) == Min(value, max_time - elapsed)

\* a response without expires_in read as one good for no time at all
expires_in_of_zero_default(r) ==
    IF r.expires.kind = "absent" THEN [ok |-> TRUE, n |-> 0]
    ELSE IF r.expires.kind = "int" THEN [ok |-> TRUE, n |-> r.expires.n]
    ELSE [ok |-> FALSE, n |-> 0]

\* token_json.get("expires_in", DEFAULT_TOKEN_EXPIRATION), then int(expires_in)
expires_in_of(r) ==
    IF r.expires.kind = "absent" THEN [ok |-> TRUE, n |-> DEFAULT_TOKEN_EXPIRATION]
    ELSE IF r.expires.kind = "int" THEN [ok |-> TRUE, n |-> r.expires.n]
    ELSE [ok |-> FALSE, n |-> 0]

\* _update_config_tokens storing the lifetime instead of the absolute expiry
_update_config_tokens_relative(cfg, r, rtime) ==
    LET c1 == [cfg EXCEPT !.access_token = Some(r.access_token),
                          !.refresh_token = IF r.refresh_token # None
                                            THEN r.refresh_token ELSE @]
        e == expires_in_of(r)
    IN  IF e.ok
        THEN [ok |-> TRUE, config |-> [c1 EXCEPT !.expires_in = Some(e.n)]]
        ELSE [ok |-> FALSE, config |-> c1]

\* _update_config_tokens: access_token and refresh_token are stored before
\* int(expires_in) can raise
_update_config_tokens(cfg, r, rtime) ==
    LET c1 == [cfg EXCEPT !.access_token = Some(r.access_token),
                          !.refresh_token = IF r.refresh_token # None
                                            THEN r.refresh_token ELSE @]
        e == expires_in_of(r)
    IN  IF e.ok
        THEN [ok |-> TRUE,
              config |-> [c1 EXCEPT !.expires_in = Some(utcnow_seconds(rtime) + e.n)]]
        ELSE [ok |-> FALSE, config |-> c1]

\* a token response update_access_token never takes for the no-op
access_token_not_expired_never(r) == FALSE

\* the provider's "Rate limit exceeded: access_token not expired" answer
access_token_not_expired(r) == r.status = 200 /\ r.body = "not_expired"

\* an update_access_token that asks the provider without a refresh_token
refresh_token_missing_never(cfg) == FALSE

\* update_access_token: `if not current_refresh_token`
refresh_token_missing(cfg) == ~Truthy(cfg.refresh_token)

\* auth_headers up to the first POST: return the cached token, or enter
\* update_access_token
AuthHeadersBegin(t) ==
    /\ token_posts' = 0
    /\ token_response' = NoTokenResponse
    /\ creds_before' = Some([config |-> config, file |-> file])
    /\ atries' = 0
    /\ IF is_token_valid(config, t)
       THEN /\ apc' = "returned"
            /\ aret' = Returned("cached", config.access_token, 0)
            /\ UNCHANGED <<astart, request_time>>
       ELSE /\ request_time' = t
            /\ IF refresh_token_missing(config)
               THEN /\ apc' = "raised"
                    /\ aret' = Raised("RuntimeError")
                    /\ UNCHANGED astart
               ELSE /\ apc' = "token_try"
                    /\ aret' = NoReturn
                    /\ astart' = t
    /\ auth_state' = getattr_auth_state(sink_auth_state)
    /\ UNCHANGED <<config, file, jitter, sink_auth_state, auth_calls>>

\* a token request that is not retried at all
token_give_up_at_once(tries, elapsed) == TRUE

\* backoff.on_exception(max_tries=10, max_time=300): no further try
token_give_up(tries, elapsed) ==
    tries = TOKEN_MAX_TRIES \/ elapsed >= Sec(TOKEN_MAX_TIME)

\* one try of _make_token_request answered 429: sleep the computed wait, raise
\* RateLimitError into the backoff loop, which gives up or sleeps and retries
TokenTry429 ==
    /\ apc = "token_try"
    /\ \E ra \in Token429Headers, d \in PostDurations :
        LET tries == atries + 1
            elapsed == now - astart
            t1 == now + d
            t2 == t1 + _calculate_wait_time(ra, t1)
        IN  /\ atries' = tries
            /\ token_posts' = token_posts + 1
            /\ token_response' = Token429(ra)
            /\ IF token_give_up(tries, elapsed)
               THEN /\ apc' = "raised"
                    /\ aret' = Raised("RateLimitError")
                    /\ now' = t2
               ELSE /\ apc' = "token_try"
                    /\ aret' = aret
                    /\ now' = t2 + next_wait(jitter * expo(tries), elapsed,
                                             Sec(TOKEN_MAX_TIME))
    /\ UNCHANGED <<config, file, jitter, auth_state, sink_auth_state, astart,
                   request_time, creds_before, auth_calls>>

\* one try of _make_token_request that ends update_access_token: the POST
\* raised, or the response is the no-op, an error, or a token
TokenTryFinal(responses) ==
    /\ apc = "token_try"
    /\ \E r \in responses, d \in PostDurations, write_ok \in BOOLEAN :
        /\ atries' = atries + 1
        /\ token_posts' = token_posts + 1
        /\ token_response' = r
        /\ now' = now + d
        /\ IF r.kind = "exception"
           THEN /\ apc' = "raised"
                /\ aret' = Raised("ConnectionError")
                /\ UNCHANGED <<config, file, auth_state, sink_auth_state>>
           ELSE IF access_token_not_expired(r)
           THEN /\ apc' = "returned"
                /\ aret' = Returned("noop", config.access_token, 0)
                /\ UNCHANGED <<config, file, auth_state, sink_auth_state>>
           ELSE IF raise_for_status(r)
           THEN /\ apc' = "raised"
                /\ aret' = Raised("RuntimeError")
                /\ auth_state' = Some(r.body)
                /\ sink_auth_state' = state_update(sink_auth_state, r.body)
                /\ UNCHANGED <<config, file>>
           ELSE IF r.body = ""
           THEN /\ apc' = "raised"
                /\ aret' = Raised("JSONDecodeError")
                /\ UNCHANGED <<config, file, auth_state, sink_auth_state>>
           ELSE LET u == _update_config_tokens(config, r, request_time)
                IN  /\ config' = u.config
                    /\ UNCHANGED <<auth_state, sink_auth_state>>
                    /\ IF ~u.ok
                       THEN /\ apc' = "raised"
                            /\ aret' = Raised("TypeError")
                            /\ file' = file
                       ELSE IF ~write_ok
                       THEN /\ apc' = "raised"
                            /\ aret' = Raised("OSError")
                            /\ file' = file
                       ELSE /\ apc' = "returned"
                            /\ aret' = Returned("refreshed", u.config.access_token,
                                                expires_in_of(r).n)
                            /\ file' = u.config
    /\ UNCHANGED <<jitter, astart, request_time, creds_before, auth_calls>>

----------------------------------------------------------------------------
(* client.py: the resource API's answers.  kind "exception" is             *)
(* requests.request raising; body is what the caller will read.            *)

ApiResponse(status, ra, body) ==
    [kind |-> "response", status |-> status, err |-> "", retry_after |-> ra,
     body |-> body]
ApiException(err) ==
    [kind |-> "exception", status |-> 0, err |-> err, retry_after |-> None,
     body |-> ""]
\* what is kept of an attempt: the status of its response or its exception
Attempt(o) == [kind |-> o.kind, status |-> o.status, err |-> o.err]
NoAttempt == [kind |-> "none", status |-> 0, err |-> ""]

Api429Headers == {None, Some(IntHeader(0)), Some(IntHeader(120))}

ApiFaults ==
    {ApiResponse(429, ra, "") : ra \in Api429Headers}
    \cup {ApiResponse(400, None, "error"), ApiResponse(500, None, "error")}
    \cup {ApiException("ReadTimeout"), ApiException("ConnectionError")}

HttpDurations == {0, MIN_REQUEST_INTERVAL}

NoResult == [kind |-> "none", status |-> 0, err |-> "", body |-> ""]
ReturnedResponse(r) == [kind |-> "returned", status |-> r.status, err |-> "",
                        body |-> r.body]
RaisedError(err) == [kind |-> "raised", status |-> 0, err |-> err, body |-> ""]

ReqIdle ==
    /\ last_request_time = 0
    /\ rpc = "idle"
    /\ rtries = 0
    /\ rstart = 0
    /\ relapsed = 0
    /\ rret = NoResult
    /\ http_count = 0
    /\ http_start = None
    /\ http_end = None
    /\ http_gap = None
    /\ last_attempt = NoAttempt
    /\ faults = 0
    /\ rcalls = 0

\* _rate_limit: how long it sleeps when called at time t
_rate_limit(t, last) ==
    LET time_since_last_request == t - last
    IN  IF time_since_last_request < MIN_REQUEST_INTERVAL
        THEN MIN_REQUEST_INTERVAL - time_since_last_request
        ELSE 0

\* a base class that accepts every status but 429
super_validate_response_lenient(status) ==
    IF status = 429 THEN "RetriableAPIError" ELSE ""

\* the base class's validate_response (target_hotglue), which
\* validate_response ends with: what it raises for a status
super_validate_response(status) ==
    IF status = 429 \/ (500 <= status /\ status < 600) THEN "RetriableAPIError"
    ELSE IF 400 <= status /\ status < 500 THEN "FatalAPIError"
    ELSE ""

\* validate_response: what it raises, and how long it sleeps first
validate_response(r, t) ==
    IF r.status = 429
    THEN [err |-> "RetriableAPIError", sleep |-> _parse_retry_after(r.retry_after, t)]
    ELSE [err |-> super_validate_response(r.status), sleep |-> 0]

\* the exceptions _request's backoff decorator retries
retried_only_api_errors(err) == err = "RetriableAPIError"

retried(err) == err \in {"RetriableAPIError", "ReadTimeout"}

\* request_api, entered at the current time
RequestBegin ==
    /\ rpc' = "try"
    /\ rtries' = 0
    /\ rstart' = now
    /\ relapsed' = 0
    /\ rret' = NoResult
    /\ http_count' = 0
    /\ last_attempt' = NoAttempt
    /\ UNCHANGED <<last_request_time, http_start, http_end, http_gap, faults,
                   rcalls>>

\* one try of _request up to the headers: the backoff loop counts the try and
\* reads elapsed, _rate_limit sleeps, http_headers asks for auth_headers
RequestTry ==
    /\ rpc = "try"
    /\ rtries' = rtries + 1
    /\ relapsed' = now - rstart
    /\ LET t1 == now + _rate_limit(now, last_request_time)
       IN  /\ now' = t1
           /\ AuthHeadersBegin(t1)
    /\ rpc' = "headers"
    /\ UNCHANGED <<last_request_time, rstart, rret, http_count, http_start, http_end,
                   http_gap,
                   last_attempt, faults, rcalls>>

\* an exception leaves _request: the backoff loop retries it after a sleep,
\* or gives up and raises it; t is the time it was raised
RequestRaise(err, t) ==
    IF retried(err) /\ ~(rtries = MAX_RETRY_TRIES \/ relapsed >= Sec(MAX_RETRY_TIME))
    THEN /\ rpc' = "try"
         /\ rret' = rret
         /\ now' = t + next_wait(jitter * expo(rtries), relapsed, Sec(MAX_RETRY_TIME))
    ELSE /\ rpc' = "raised"
         /\ rret' = RaisedError(err)
         /\ now' = t

\* the rest of the try, once auth_headers ended: its error leaves _request, or
\* the HTTP request is sent and its outcome validated
RequestSend(answers) ==
    /\ rpc = "headers"
    /\ apc \in {"returned", "raised"}
    /\ apc' = "idle"
    /\ IF apc = "raised"
       THEN /\ RequestRaise(aret.err, now)
            /\ UNCHANGED <<last_request_time, http_count, http_start, http_end,
                           http_gap,
                           last_attempt, faults>>
       ELSE \E o \in answers, d \in HttpDurations :
            LET t1 == now + d
                v == validate_response(o, t1)
            IN  /\ http_count' = http_count + 1
                /\ http_start' = Some(now)
                /\ http_end' = Some(t1)
                /\ http_gap' = IF http_start = None THEN None
                               ELSE Some(Min(now - Get(http_start), MIN_REQUEST_INTERVAL))
                /\ last_attempt' = Attempt(o)
                /\ faults' = IF o \in ApiFaults THEN faults + 1 ELSE faults
                /\ IF o.kind = "exception"
                   THEN /\ last_request_time' = last_request_time
                        /\ RequestRaise(o.err, t1)
                   ELSE /\ last_request_time' = t1
                        /\ IF v.err # ""
                           THEN RequestRaise(v.err, t1 + v.sleep)
                           ELSE /\ rpc' = "returned"
                                /\ rret' = ReturnedResponse(o)
                                /\ now' = t1
    /\ auth_calls' = Append(auth_calls, aret.path)
    /\ UNCHANGED <<config, file, jitter, atries, astart, request_time, aret,
                   auth_state, sink_auth_state, token_posts, token_response,
                   creds_before, rtries, rstart, relapsed, rcalls>>

----------------------------------------------------------------------------
(* sinks.py: the BuyOrders sink.  A record's line_items field is           *)
(* abstracted by what _parse_line_items tells apart; a line item by        *)
(* whether it is a mapping ("dict", it has .get) or anything else that     *)
(* JSON or the tap can put in the list ("text": a string, a number, null). *)

(* Values of a record: what the code tells apart is the type and, for a  *)
(* string, its characters.  A string is the sequence of its characters, a  *)
(* number is kept with its decimal digits.                                 *)

PyNone == [type |-> "NoneType", chars |-> <<>>]
Str(chars) == [type |-> "str", chars |-> chars]
Num(chars) == [type |-> "int", chars |-> chars]
Absent == [type |-> "absent", chars |-> <<>>]     \* key not in the payload

\* bool(value)
truthy(value) ==
    IF value.type = "NoneType" THEN FALSE
    ELSE IF value.type = "str" THEN value.chars # <<>>
    ELSE value.chars # <<"0">>

\* str(value)
str(value) ==
    IF value.type = "NoneType" THEN Str(<<"N", "o", "n", "e">>)
    ELSE Str(value.chars)

\* a or b
or(a, b) == IF truthy(a) THEN a ELSE b

\* c in s, s.count(c), s.replace(c, by)
contains(s, c) == \E i \in 1..Len(s) : s[i] = c
count(s, c) == Cardinality({i \in 1..Len(s) : s[i] = c})
RECURSIVE replace(_, _, _)
replace(s, c, by) ==
    IF s = <<>> THEN <<>>
    ELSE (IF Head(s) = c THEN by ELSE <<Head(s)>>) \o replace(Tail(s), c, by)

isdigits(s) ==
    \A i \in 1..Len(s) :
        s[i] \in {"0", "1", "2", "3", "4", "5", "6", "7", "8", "9"}

UtcOffset == <<"+", "0", "0", ":", "0", "0">>                         \* "+00:00"

NoDatetime == [ok |-> FALSE, date |-> <<>>, time |-> <<>>]
Datetime(date, time) == [ok |-> TRUE, date |-> date, time |-> time]

\* datetime.fromisoformat on a string with no offset: YYYY-MM-DD, alone or
\* followed by any one character and HH:MM or HH:MM:SS; from Python 3.11 on
\* (lenient) the basic format YYYYMMDDTHHMMSS as well.  Anything else raises
\* ValueError (NoDatetime).  The ranges of the fields are not looked at.
fromisoformat(s, lenient) ==
    LET date_ok(d) ==
            /\ d[5] = "-" /\ d[8] = "-"
            /\ isdigits(SubSeq(d, 1, 4) \o SubSeq(d, 6, 7) \o SubSeq(d, 9, 10))
        hhmm_ok(t) == t[3] = ":" /\ isdigits(SubSeq(t, 1, 2) \o SubSeq(t, 4, 5))
    IN  IF Len(s) = 10 /\ date_ok(s)
        THEN Datetime(s, <<"0", "0", ":", "0", "0", ":", "0", "0">>)
        ELSE IF Len(s) = 16 /\ date_ok(SubSeq(s, 1, 10)) /\ hhmm_ok(SubSeq(s, 12, 16))
        THEN Datetime(SubSeq(s, 1, 10), SubSeq(s, 12, 16) \o <<":", "0", "0">>)
        ELSE IF /\ Len(s) = 19 /\ date_ok(SubSeq(s, 1, 10))
                /\ hhmm_ok(SubSeq(s, 12, 16))
                /\ s[17] = ":" /\ isdigits(SubSeq(s, 18, 19))
        THEN Datetime(SubSeq(s, 1, 10), SubSeq(s, 12, 19))
        ELSE IF /\ lenient /\ Len(s) = 15 /\ s[9] = "T"
                /\ isdigits(SubSeq(s, 1, 8) \o SubSeq(s, 10, 15))
        THEN Datetime(SubSeq(s, 1, 4) \o <<"-">> \o SubSeq(s, 5, 6) \o <<"-">>
                          \o SubSeq(s, 7, 8),
                      SubSeq(s, 10, 11) \o <<":">> \o SubSeq(s, 12, 13) \o <<":">>
                          \o SubSeq(s, 14, 15))
        ELSE NoDatetime

\* dt.replace(tzinfo=timezone.utc).isoformat()
isoformat(dt) == dt.date \o <<"T">> \o dt.time \o UtcOffset

\* BuyOrders._format_date
_format_date(date_value, lenient) ==
    IF date_value.type = "NoneType" THEN PyNone
    ELSE IF date_value.type = "str"
    THEN LET s == date_value.chars
         IN  IF contains(s, "Z") THEN Str(replace(s, "Z", UtcOffset))
             ELSE IF contains(s, "+") \/ count(s, "-") > 2 THEN date_value
             ELSE LET dt == fromisoformat(s, lenient)
                  IN  IF dt.ok THEN Str(isoformat(dt)) ELSE date_value
    ELSE str(date_value)

RecordKeys ==
    {"BuyOrder.ID", "id", "externalid", "refNum",
     "OrderDate", "transaction_date", "orderedDate",
     "expectedDeliveryDate", "created_at", "arrivalDate",
     "SupplierRemoteId", "supplier_remoteId", "vendorID",
     "shipInstructions", "stockInstructions",
     "shipCost", "otherCost", "discount"}

NoFields == [k \in RecordKeys |-> PyNone]

\* preprocess_record: the fields of the order payload mapped from the
\* record, shopID and _line_items apart.  A key is set to str(value) when
\* value is not None, to value when it is truthy, or to value when it is
\* not None
order_fields_of(fields, lenient) ==
    LET f(key) == _format_date(fields[key], lenient)
        set_str_if_not_none(value) ==
            IF value.type = "NoneType" THEN Absent ELSE str(value)
        set_if_truthy(value) == IF truthy(value) THEN value ELSE Absent
        set_if_not_none(value) == IF value.type = "NoneType" THEN Absent ELSE value
    IN  [refNum |-> set_str_if_not_none(
                        or(or(or(fields["BuyOrder.ID"], fields["id"]),
                              fields["externalid"]), fields["refNum"])),
         orderedDate |-> set_str_if_not_none(
                        or(or(f("OrderDate"), f("transaction_date")),
                           f("orderedDate"))),
         arrivalDate |-> set_str_if_not_none(
                        or(or(f("expectedDeliveryDate"), f("created_at")),
                           f("arrivalDate"))),
         vendorID |-> set_str_if_not_none(
                        or(or(fields["SupplierRemoteId"], fields["supplier_remoteId"]),
                           fields["vendorID"])),
         shipInstructions |-> set_if_truthy(fields["shipInstructions"]),
         stockInstructions |-> set_if_truthy(fields["stockInstructions"]),
         shipCost |-> set_if_not_none(fields["shipCost"]),
         otherCost |-> set_if_not_none(fields["otherCost"]),
         discount |-> set_if_not_none(fields["discount"])]

LineItemsField(kind, items) == [kind |-> kind, items |-> items]
\* what json.loads or the field itself yields: a list, or a number
List(items) == [kind |-> "list", items |-> items]
Number == [kind |-> "number", items |-> <<>>]

_parse_line_items(line_items_field) ==
    IF line_items_field.kind = "absent" THEN List(<<>>)
    ELSE IF line_items_field.kind = "list" /\ line_items_field.items = <<>>
    THEN List(<<>>)
    ELSE IF line_items_field.kind = "bad_json" THEN List(<<>>)
    ELSE IF line_items_field.kind = "json_list" THEN List(line_items_field.items)
    ELSE IF line_items_field.kind = "json_number" THEN Number
    ELSE IF line_items_field.kind = "list" THEN List(line_items_field.items)
    ELSE List(<<>>)

\* what request_api hands to upsert_record: a response _request returned,
\* or an error it raised
RequestErrors ==
    {"FatalAPIError", "RetriableAPIError", "ReadTimeout", "ConnectionError",
     "RuntimeError"}

OrderBodies == {"Order.orderID", "orderID", "id", "no_id", "not_json", "json_list"}

LineBodies == {"OrderLine.orderLineID", "no_orderLineID", "not_json"}

request_api(bodies) ==
    {ReturnedResponse(ApiResponse(200, None, b)) : b \in bodies}
    \cup {RaisedError(e) : e \in RequestErrors}

\* response.json(), or {} when the body is no JSON
response_data_of(body) == IF body = "not_json" THEN "{}" ELSE body

\* the order id upsert_record finds in the response body, if any
order_id_of(body) ==
    IF body \in {"Order.orderID", "orderID", "id"} THEN Some("77") ELSE None

Outcome(id, success, diagnostics) ==
    [id |-> id, success |-> success, diagnostics |-> diagnostics]
NoOutcome == Outcome(None, FALSE, {})

\* upsert_record's outer except: what it returns for an error of that type
upsert_failed(error_type, has_response) ==
    Outcome(None, FALSE,
            state_updates
            \cup (IF has_response THEN {<<"api_error_response", "error">>} ELSE {})
            \cup {<<"error", error_type>>, <<"error_type", error_type>>})

\* a line response the loop counts as a success: one with no orderLineID
\* counts as well
line_succeeded_with_id(o) ==
    o.kind = "returned" /\ o.body = "OrderLine.orderLineID"

line_succeeded(o) ==
    o.kind = "returned" /\ o.body \in {"OrderLine.orderLineID", "no_orderLineID"}

\* a shop id made up when the record and the configuration have none
shop_id_defaulted(shopID, default) ==
    IF Truthy(shopID) THEN shopID
    ELSE IF Truthy(default) THEN default ELSE Some("1")

\* record.get("shopID") or self.config.get("buyorders_shop_id")
shop_id_of(shopID, default) ==
    IF Truthy(shopID) THEN shopID ELSE default

NoRecord ==
    [shopID |-> None, line_items |-> LineItemsField("absent", <<>>),
     fields |-> NoFields]

OrderIdle ==
    /\ record = NoRecord
    /\ buyorders_shop_id = None
    /\ opc = "idle"
    /\ payload = None
    /\ order_response = NoResult
    /\ order_id = None
    /\ idx = 0
    /\ order_line_payload = None
    /\ lines_success = 0
    /\ lines_failed = 0
    /\ state_updates = {}
    /\ result = NoOutcome
    /\ requests = <<>>
    /\ line_results = <<>>
    /\ lines_log = None
    /\ record_no = 0
    /\ issued = <<>>

\* what the k-th turn of `for idx, line_item in enumerate(line_items)` yields,
\* from the end of the list
enumerate_reversed(items, k) ==
    [i |-> Len(items) - k, item |-> items[Len(items) - k]]

\* what the k-th turn of `for idx, line_item in enumerate(line_items)` yields,
\* positions counted from 1
enumerate(items, k) == [i |-> k + 1, item |-> items[k + 1]]

\* preprocess_record: the line items are parsed, then a record with no shop
\* id raises ValueError
preprocess_record ==
    /\ opc = "record"
    /\ LET line_items == _parse_line_items(record.line_items)
           shop_id == shop_id_of(record.shopID, buyorders_shop_id)
       IN  IF ~Truthy(shop_id)
           THEN /\ opc' = "rejected"
                /\ payload' = None
           ELSE /\ opc' = "mapped"
                /\ \E lenient \in BOOLEAN :
                     payload' = Some([shopID |-> Get(shop_id),
                                      _line_items |-> line_items,
                                      fields |-> order_fields_of(record.fields,
                                                                 lenient)])
    /\ UNCHANGED <<record, buyorders_shop_id, order_response, order_id, idx,
                   order_line_payload, lines_success, lines_failed, state_updates,
                   result, requests, line_results, lines_log, record_no, issued>>

\* upsert_record of an empty record
upsert_record_empty ==
    /\ opc = "record"
    /\ opc' = "done"
    /\ result' = Outcome(None, FALSE, state_updates)
    /\ UNCHANGED <<record, buyorders_shop_id, payload, order_response, order_id, idx,
                   order_line_payload, lines_success, lines_failed, state_updates,
                   requests, line_results, lines_log, record_no, issued>>

\* upsert_record up to the line loop: the order request, the order id
upsert_record_order ==
    /\ opc = "mapped"
    /\ requests' = Append(requests, 0)
    /\ issued' = Append(issued, <<record_no, 0>>)
    /\ \E o \in request_api(OrderBodies), has_response \in BOOLEAN :
        LET line_items == Get(payload)._line_items
            failed(error_type, resp) ==
                /\ opc' = "done"
                /\ result' = upsert_failed(error_type, resp)
                /\ UNCHANGED <<order_id, state_updates>>
        IN  /\ order_response' = o
            /\ IF o.kind = "raised"
               THEN failed(o.err, has_response /\ o.err \in {"FatalAPIError",
                                                             "RetriableAPIError"})
               ELSE IF o.body = "json_list"
               THEN failed("AttributeError", FALSE)
               ELSE IF order_id_of(o.body) = None
               THEN /\ opc' = "done"
                    /\ state_updates' = {<<"error", "No orderID in API response">>,
                                         <<"api_response", response_data_of(o.body)>>}
                    /\ result' = Outcome(None, FALSE, state_updates')
                    /\ UNCHANGED order_id
               ELSE IF line_items.kind = "number"
               THEN /\ opc' = "done"
                    /\ order_id' = order_id_of(o.body)
                    /\ result' = upsert_failed("TypeError", FALSE)
                    /\ UNCHANGED state_updates
               ELSE IF line_items.items = <<>>
               THEN /\ opc' = "done"
                    /\ order_id' = order_id_of(o.body)
                    /\ result' = Outcome(order_id', TRUE, state_updates)
                    /\ UNCHANGED state_updates
               ELSE /\ opc' = "lines"
                    /\ order_id' = order_id_of(o.body)
                    /\ UNCHANGED <<result, state_updates>>
    /\ UNCHANGED <<record, buyorders_shop_id, payload, idx, order_line_payload,
                   lines_success, lines_failed, line_results, lines_log, record_no>>

\* one iteration of the line loop.  An item that is no mapping raises
\* AttributeError before order_line_payload is assigned; the handler then
\* reads order_line_payload, which raises UnboundLocalError out of the loop
\* when no earlier iteration has bound it
upsert_record_line ==
    /\ opc = "lines"
    /\ idx < Len(Get(payload)._line_items.items)
    /\ \E o \in request_api(LineBodies) :
        LET turn == enumerate(Get(payload)._line_items.items, idx)
            line_item == turn.item
        IN  IF line_item # "dict"
            THEN /\ line_results' = Append(line_results, RaisedError("AttributeError"))
                 /\ IF order_line_payload = None
                    THEN /\ opc' = "done"
                         /\ result' = upsert_failed("UnboundLocalError", FALSE)
                         /\ UNCHANGED <<idx, lines_failed>>
                    ELSE /\ lines_failed' = lines_failed + 1
                         /\ idx' = idx + 1
                         /\ UNCHANGED <<opc, result>>
                 /\ UNCHANGED <<order_line_payload, requests, issued, lines_success>>
            ELSE /\ order_line_payload' = Some(turn.i)
                 /\ requests' = Append(requests, turn.i)
                 /\ issued' = Append(issued, <<record_no, turn.i>>)
                 /\ line_results' = Append(line_results, o)
                 /\ IF line_succeeded(o)
                    THEN /\ lines_success' = lines_success + 1
                         /\ UNCHANGED lines_failed
                    ELSE /\ lines_failed' = lines_failed + 1
                         /\ UNCHANGED lines_success
                 /\ idx' = idx + 1
                 /\ UNCHANGED <<opc, result>>
    /\ UNCHANGED <<record, buyorders_shop_id, payload, order_response, order_id,
                   state_updates, lines_log, record_no>>

\* the loop is over: the counts are logged and upsert_record returns
upsert_record_return ==
    /\ opc = "lines"
    /\ idx = Len(Get(payload)._line_items.items)
    /\ lines_log' = Some([succeeded |-> lines_success, failed |-> lines_failed])
    /\ opc' = "done"
    /\ result' = Outcome(order_id, TRUE, state_updates)
    /\ UNCHANGED <<record, buyorders_shop_id, payload, order_response, order_id, idx,
                   order_line_payload, lines_success, lines_failed, state_updates,
                   requests, line_results, record_no, issued>>

----------------------------------------------------------------------------
(* Inputs *)

NowInputs == {Sec(BaseTime) + d : d \in 0..MaxNowOffset}

TokenInputs == {None, Some(""), Some("tok0")}

ExpiryInputs ==
    {None} \cup
    {Some(BaseTime + TOKEN_BUFFER_SECONDS + d) : d \in (0 - MaxDelta)..(MaxDelta + 1)}

ConfigInputs ==
    {[access_token |-> a, refresh_token |-> Some("ref0"), expires_in |-> e] :
        a \in TokenInputs, e \in ExpiryInputs}

RetryAfterInputs ==
    {None, Some(EmptyHeader), Some(GarbageHeader)}
    \cup {Some(IntHeader(n)) : n \in {0, 1, 120}}
    \cup {Some(DateHeader(BaseTime + d, z)) :
            d \in {90, 600}, z \in {"GMT", "-0000"}}

NoWait == [auth |-> None, client |-> None]

----------------------------------------------------------------------------
(* Specification of is_token_valid alone *)

InitValid ==
    /\ now \in NowInputs
    /\ config \in ConfigInputs
    /\ file = config
    /\ jitter = 0
    /\ valid_out = None
    /\ retry_after = None
    /\ wait_out = NoWait
    /\ AuthIdle
    /\ sink_auth_state = NoAttribute
    /\ ReqIdle
    /\ OrderIdle

CallIsTokenValid ==
    /\ valid_out = None
    /\ valid_out' = Some(is_token_valid(config, now))
    /\ UNCHANGED <<now, config, file, jitter, retry_after, wait_out, authVars, reqVars,
                 orderVars>>

NextValid == CallIsTokenValid

SpecValid == InitValid /\ [][NextValid]_vars

(* Specification of the two Retry-After parsers alone *)

InitRetryAfter ==
    /\ now \in NowInputs
    /\ config \in {[access_token |-> None, refresh_token |-> Some("ref0"),
                    expires_in |-> None]}
    /\ file = config
    /\ jitter = 0
    /\ valid_out = None
    /\ retry_after \in RetryAfterInputs
    /\ wait_out = NoWait
    /\ AuthIdle
    /\ sink_auth_state = NoAttribute
    /\ ReqIdle
    /\ OrderIdle

CallCalculateWaitTime ==
    /\ wait_out.auth = None
    /\ wait_out' = [wait_out EXCEPT !.auth = Some(_calculate_wait_time(retry_after, now))]
    /\ UNCHANGED <<now, config, file, jitter, valid_out, retry_after, authVars, reqVars,
                 orderVars>>

CallParseRetryAfter ==
    /\ wait_out.client = None
    /\ wait_out' = [wait_out EXCEPT !.client = Some(_parse_retry_after(retry_after, now))]
    /\ UNCHANGED <<now, config, file, jitter, valid_out, retry_after, authVars, reqVars,
                 orderVars>>

NextRetryAfter == CallCalculateWaitTime \/ CallParseRetryAfter

SpecRetryAfter == InitRetryAfter /\ [][NextRetryAfter]_vars

(* Specification of the authenticator: one auth_headers call from any      *)
(* configuration, against any answers of the OAuth endpoint                *)

TokenConfigInputs ==
    {[access_token |-> a, refresh_token |-> r, expires_in |-> e] :
        a \in {None, Some("tok0")},
        r \in {None, Some("ref0")},
        e \in {None, Some(BaseTime + TOKEN_BUFFER_SECONDS - 1),
               Some(BaseTime + TOKEN_BUFFER_SECONDS),
               Some(BaseTime + DEFAULT_TOKEN_EXPIRATION)}}

InitToken ==
    /\ now = Sec(BaseTime)
    /\ config \in TokenConfigInputs
    /\ file = config
    /\ jitter \in {0, 1}
    /\ valid_out = None
    /\ retry_after = None
    /\ wait_out = NoWait
    /\ AuthIdle
    /\ sink_auth_state = NoAttribute
    /\ ReqIdle
    /\ OrderIdle

CallAuthHeaders ==
    /\ apc = "idle"
    /\ AuthHeadersBegin(now)
    /\ UNCHANGED <<now, pureVars, reqVars, orderVars>>

TokenRetry ==
    /\ TokenTry429
    /\ UNCHANGED <<pureVars, reqVars, orderVars>>

TokenAnswer ==
    /\ TokenTryFinal(TokenFinalResponses)
    /\ UNCHANGED <<pureVars, reqVars, orderVars>>

NextToken == CallAuthHeaders \/ TokenRetry \/ TokenAnswer

SpecToken == InitToken /\ [][NextToken]_vars

(* Specification of successive refreshes: auth_headers read a few times   *)
(* in a row, the OAuth endpoint answering 429 a bounded number of times    *)
(* per call                                                                *)

MaxRefreshCalls == 2               \* auth_headers calls in one run
MaxRefresh429 == 1                 \* 429 answers to one call

RefreshConfigInputs ==
    {[access_token |-> a, refresh_token |-> r, expires_in |-> e] :
        a \in {None, Some("tok0")},
        r \in {None, Some("ref0")},
        e \in {None, Some(BaseTime), Some(BaseTime + DEFAULT_TOKEN_EXPIRATION)}}

InitRefresh ==
    /\ now = Sec(BaseTime)
    /\ config \in RefreshConfigInputs
    /\ file = config
    /\ jitter \in {0, 1}
    /\ valid_out = None
    /\ retry_after = None
    /\ wait_out = NoWait
    /\ AuthIdle
    /\ sink_auth_state \in SinkAuthStateInputs
    /\ ReqIdle
    /\ OrderIdle

RefreshCall ==
    /\ apc = "idle"
    /\ Len(auth_calls) < MaxRefreshCalls
    /\ AuthHeadersBegin(now)
    /\ UNCHANGED <<now, pureVars, reqVars, orderVars>>

Refresh429 ==
    /\ atries < MaxRefresh429
    /\ TokenTry429
    /\ UNCHANGED <<pureVars, reqVars, orderVars>>

RefreshAnswer ==
    /\ TokenTryFinal(TokenFinalResponses)
    /\ UNCHANGED <<pureVars, reqVars, orderVars>>

\* the caller has the header or the error; the next call can begin
RefreshDone ==
    /\ apc \in {"returned", "raised"}
    /\ apc' = "idle"
    /\ auth_calls' = Append(auth_calls, aret.path)
    /\ UNCHANGED <<now, config, file, jitter, pureVars, reqVars, orderVars, atries,
                   astart, request_time, aret, auth_state, sink_auth_state,
                   token_posts,
                   token_response, creds_before>>

NextRefresh == RefreshCall \/ Refresh429 \/ RefreshAnswer \/ RefreshDone

SpecRefresh == InitRefresh /\ [][NextRefresh]_vars

(* Specification of the executor: request_api called a few times in a row, *)
(* as upsert_record does, against a resource API that may fail a bounded    *)
(* number of times                                                          *)

MaxCalls == 2                      \* request_api calls in one run
MaxFaults == 5                     \* answers other than 2xx in one run

\* a token good for the whole run, or one to refresh at the first request,
\* with or without the refresh_token that takes
RequestConfigInputs ==
    {[access_token |-> Some("tok0"), refresh_token |-> Some("ref0"),
      expires_in |-> Some(BaseTime + DEFAULT_TOKEN_EXPIRATION)],
     [access_token |-> Some("tok0"), refresh_token |-> Some("ref0"),
      expires_in |-> Some(BaseTime)],
     [access_token |-> Some("tok0"), refresh_token |-> None,
      expires_in |-> Some(BaseTime)]}

\* the OAuth endpoint answers the one refresh with a token
RequestTokenResponses == {TokenOk(None, AbsentExpiry)}

ApiAnswers(budget) ==
    {ApiResponse(200, None, "ok")} \cup (IF faults < budget THEN ApiFaults ELSE {})

InitRequest ==
    /\ now = Sec(BaseTime)
    /\ config \in RequestConfigInputs
    /\ file = config
    /\ jitter \in {0, 1}
    /\ valid_out = None
    /\ retry_after = None
    /\ wait_out = NoWait
    /\ AuthIdle
    /\ sink_auth_state = NoAttribute
    /\ ReqIdle
    /\ OrderIdle

CallRequestApi ==
    /\ rpc = "idle"
    /\ rcalls < MaxCalls
    /\ RequestBegin
    /\ UNCHANGED <<now, config, file, jitter, pureVars, authVars, orderVars>>

RequestGate ==
    /\ RequestTry
    /\ UNCHANGED <<pureVars, orderVars>>

RequestToken ==
    /\ rpc = "headers"
    /\ TokenTryFinal(RequestTokenResponses)
    /\ UNCHANGED <<pureVars, reqVars, orderVars>>

RequestHttp ==
    /\ RequestSend(ApiAnswers(MaxFaults))
    /\ UNCHANGED <<pureVars, orderVars>>

\* the caller takes the response or the error and goes on; the call's locals
\* are gone
RequestDone ==
    /\ rpc \in {"returned", "raised"}
    /\ rpc' = "idle"
    /\ rcalls' = rcalls + 1
    /\ rtries' = 0
    /\ rstart' = 0
    /\ relapsed' = 0
    /\ rret' = NoResult
    /\ http_count' = 0
    /\ last_attempt' = NoAttempt
    /\ UNCHANGED <<now, config, file, jitter, pureVars, authVars, last_request_time,
                   http_start, http_end, http_gap, faults, orderVars>>

NextRequest ==
    CallRequestApi \/ RequestGate \/ RequestToken \/ RequestHttp \/ RequestDone

SpecRequest == InitRequest /\ [][NextRequest]_vars

(* Specification of the sink: one record goes through preprocess_record   *)
(* and upsert_record, against any outcomes of its request_api calls        *)

MaxLines == 3                      \* line items of a record

RECURSIVE SeqsUpTo(_, _)
SeqsUpTo(S, n) ==
    IF n = 0 THEN {<<>>}
    ELSE LET shorter == SeqsUpTo(S, n - 1)
         IN  shorter \cup {Append(q, x) : q \in shorter, x \in S}

LineItemInputs == SeqsUpTo({"dict", "text"}, MaxLines)

LineItemsFieldInputs ==
    {LineItemsField(k, <<>>) : k \in {"absent", "bad_json", "json_number", "other"}}
    \cup {LineItemsField(k, q) : k \in {"list", "json_list"}, q \in LineItemInputs}

RecordInputs ==
    {[shopID |-> s, line_items |-> f, fields |-> NoFields] :
        s \in {None, Some(""), Some("1")}, f \in LineItemsFieldInputs}

\* a sink that has its first record and has done nothing with it yet
InitSink ==
    /\ now = Sec(BaseTime)
    /\ config \in {[access_token |-> Some("tok0"), refresh_token |-> Some("ref0"),
                    expires_in |-> Some(BaseTime + DEFAULT_TOKEN_EXPIRATION)]}
    /\ file = config
    /\ jitter = 0
    /\ valid_out = None
    /\ retry_after = None
    /\ wait_out = NoWait
    /\ AuthIdle
    /\ sink_auth_state = NoAttribute
    /\ ReqIdle
    /\ opc = "record"
    /\ payload = None
    /\ order_response = NoResult
    /\ order_id = None
    /\ idx = 0
    /\ order_line_payload = None
    /\ lines_success = 0
    /\ lines_failed = 0
    /\ state_updates = {}
    /\ result = NoOutcome
    /\ requests = <<>>
    /\ line_results = <<>>
    /\ lines_log = None
    /\ record_no = 1
    /\ issued = <<>>

InitOrder ==
    /\ InitSink
    /\ record \in RecordInputs
    /\ buyorders_shop_id \in {None, Some(""), Some("2")}

otherVars == <<now, config, file, jitter, pureVars, authVars, reqVars>>

Preprocess == preprocess_record /\ UNCHANGED otherVars

UpsertEmpty == upsert_record_empty /\ UNCHANGED otherVars

UpsertOrder == upsert_record_order /\ UNCHANGED otherVars

UpsertLine == upsert_record_line /\ UNCHANGED otherVars

UpsertReturn == upsert_record_return /\ UNCHANGED otherVars

NextOrder == Preprocess \/ UpsertEmpty \/ UpsertOrder \/ UpsertLine \/ UpsertReturn

SpecOrder == InitOrder /\ [][NextOrder]_vars

(* Specification of the mapping: preprocess_record over records whose     *)
(* fields vary one group at a time                                         *)

\* date values a tap can send, each with what it denotes: whether it names
\* its zone (an offset, Z, or none) and the UTC time it stands for when a
\* value with no zone is read as UTC
DateCases ==
    {[value |-> Str(<<"2", "0", "2", "5", "-", "1", "2", "-", "0", "5", "T", "0", "8", ":", "5", "5", ":", "0", "0", "Z">>),
      zone |-> "Z",
      utc |-> <<"2", "0", "2", "5", "-", "1", "2", "-", "0", "5", "T", "0", "8", ":", "5", "5", ":", "0", "0">>],
     [value |-> Str(<<"2", "0", "2", "5", "-", "1", "2", "-", "0", "5", "T", "0", "8", ":", "5", "5", ":", "0", "0", "+", "0", "2", ":", "0", "0">>),
      zone |-> "offset",
      utc |-> <<"2", "0", "2", "5", "-", "1", "2", "-", "0", "5", "T", "0", "6", ":", "5", "5", ":", "0", "0">>],
     [value |-> Str(<<"2", "0", "2", "5", "-", "1", "2", "-", "0", "5", "T", "0", "8", ":", "5", "5", ":", "0", "0", "-", "0", "5", ":", "0", "0">>),
      zone |-> "offset",
      utc |-> <<"2", "0", "2", "5", "-", "1", "2", "-", "0", "5", "T", "1", "3", ":", "5", "5", ":", "0", "0">>],
     [value |-> Str(<<"2", "0", "2", "5", "-", "1", "2", "-", "0", "5", "T", "0", "8", ":", "5", "5", ":", "0", "0">>),
      zone |-> "naive",
      utc |-> <<"2", "0", "2", "5", "-", "1", "2", "-", "0", "5", "T", "0", "8", ":", "5", "5", ":", "0", "0">>],
     [value |-> Str(<<"2", "0", "2", "5", "-", "1", "2", "-", "0", "5">>),
      zone |-> "naive",
      utc |-> <<"2", "0", "2", "5", "-", "1", "2", "-", "0", "5", "T", "0", "0", ":", "0", "0", ":", "0", "0">>],
     [value |-> Str(<<"2", "0", "2", "5", "-", "1", "2", "-", "0", "5", " ", "0", "8", ":", "5", "5">>),
      zone |-> "naive",
      utc |-> <<"2", "0", "2", "5", "-", "1", "2", "-", "0", "5", "T", "0", "8", ":", "5", "5", ":", "0", "0">>],
     [value |-> Str(<<"2", "0", "2", "5", "1", "2", "0", "5", "T", "0", "8", "5", "5", "0", "0">>),
      zone |-> "naive",
      utc |-> <<"2", "0", "2", "5", "-", "1", "2", "-", "0", "5", "T", "0", "8", ":", "5", "5", ":", "0", "0">>],
     [value |-> Str(<<"2", "0", "2", "5", "-", "3", "3", "9">>),
      zone |-> "naive",
      utc |-> <<"2", "0", "2", "5", "-", "1", "2", "-", "0", "5", "T", "0", "0", ":", "0", "0", ":", "0", "0">>]}

WithFields(keys, values) ==
    {[k \in RecordKeys |-> IF k \in DOMAIN g THEN g[k] ELSE PyNone] :
        g \in [keys -> values]}

\* what a field other than a date can hold: nothing, an empty string, the
\* number 0, a string
FieldValues == {PyNone, Str(<<>>), Num(<<"0">>), Str(<<"7">>)}

MappingRecordInputs ==
    {[shopID |-> s, line_items |-> LineItemsField("absent", <<>>), fields |-> g] :
        s \in {None, Some("1")},
        g \in WithFields({"OrderDate", "transaction_date", "orderedDate"},
                         {c.value : c \in DateCases} \cup {PyNone, Str(<<>>)})
              \cup WithFields({"expectedDeliveryDate", "created_at", "arrivalDate"},
                              {PyNone, Str(<<>>), Str(<<"2", "0", "2", "5", "-", "1",
                                                       "2", "-", "0", "5">>)})
              \cup WithFields({"BuyOrder.ID", "id", "externalid", "refNum"},
                              FieldValues)
              \cup WithFields({"SupplierRemoteId", "supplier_remoteId", "vendorID"},
                              FieldValues)
              \cup WithFields({"shipInstructions", "stockInstructions", "shipCost",
                               "otherCost", "discount"}, FieldValues)}

InitMapping ==
    /\ InitSink
    /\ record \in MappingRecordInputs
    /\ buyorders_shop_id = None

NextMapping == Preprocess

SpecMapping == InitMapping /\ [][NextMapping]_vars

(* Specification of the stream: the target hands records to the sink one  *)
(* at a time (MAX_PARALLELISM = 1), each going through preprocess_record   *)
(* and upsert_record before the next is taken                              *)

MaxRecords == 2                    \* records of the stream

StreamRecordInputs ==
    {[shopID |-> s, line_items |-> f, fields |-> NoFields] :
        s \in {None, Some("1")},
        f \in {LineItemsField("absent", <<>>)}
               \cup {LineItemsField("list", q) : q \in LineItemInputs}}

InitRecords ==
    /\ InitOrder
    /\ record \in StreamRecordInputs
    /\ buyorders_shop_id = None

\* the target takes the next record of the stream once the sink is through
\* with the one before
process_record ==
    /\ opc \in {"done", "rejected"}
    /\ record_no < MaxRecords
    /\ record' \in StreamRecordInputs
    /\ record_no' = record_no + 1
    /\ opc' = "record"
    /\ payload' = None
    /\ order_response' = NoResult
    /\ order_id' = None
    /\ idx' = 0
    /\ order_line_payload' = None
    /\ lines_success' = 0
    /\ lines_failed' = 0
    /\ state_updates' = {}
    /\ result' = NoOutcome
    /\ requests' = <<>>
    /\ line_results' = <<>>
    /\ lines_log' = None
    /\ UNCHANGED <<buyorders_shop_id, issued>>

ProcessRecord == process_record /\ UNCHANGED otherVars

NextRecords == NextOrder \/ ProcessRecord

SpecRecords == InitRecords /\ [][NextRecords]_vars

----------------------------------------------------------------------------
(* C1: once the order request has returned an order id, upsert_record      *)
(* returns (order_id, success=true, diagnostics) whatever the line items   *)
(* are and whatever their requests meet; it returns success=false only if  *)
(* no order id was obtained.                                               *)
C1_SuccessOnceOrderCreated ==
    (opc = "done" /\ order_id # None) =>
        (result.success /\ result.id = order_id)

(* C2: for a created order with n line items, upsert_record makes exactly  *)
(* one request_api call per item, in list order, whatever the earlier      *)
(* items met.                                                              *)
C2_OneSubmissionPerItem ==
    (opc = "done" /\ order_id # None /\ Get(payload)._line_items.kind = "list") =>
        LET n == Len(Get(payload)._line_items.items)
        IN  requests = [i \in 1..(n + 1) |-> i - 1]

(* C3, as claimed: when the order is created and k of its n line           *)
(* submissions fail, the returned diagnostics map reports k failures and   *)
(* n - k successes.                                                        *)
SubmissionFailed(r) == r.kind = "raised" \/ r.body = "not_json"
FailedLines == Cardinality({i \in 1..Len(line_results) : SubmissionFailed(line_results[i])})

NoShopId == ~Truthy(record.shopID) /\ ~Truthy(buyorders_shop_id)

C11_MissingShopId ==
    NoShopId =>
        /\ opc \notin {"mapped", "lines"}
        /\ payload = None
        /\ requests = <<>>
        /\ http_count = 0
        /\ token_posts = 0

C11_Witness ==
    /\ NoShopId
    /\ opc = "rejected"
    /\ record.line_items.items # <<>>

(* C12: when the order response carries no order id under any known       *)
(* shape, upsert_record returns (absent, success=false, diagnostics), the  *)
(* diagnostics contain the full response body, and no line request is made *)
(* for the record.                                                         *)
NoOrderId ==
    order_response.kind = "returned" /\ order_id_of(order_response.body) = None

C12_OrderIdAbsent ==
    (opc = "done" /\ NoOrderId) =>
        /\ result.id = None
        /\ ~result.success
        /\ <<"api_response", order_response.body>> \in result.diagnostics
        /\ requests = <<0>>

(* C17: every value upsert_record returns is either (id, success=true) or  *)
(* (no id, success=false, diagnostics that are not empty), for every       *)
(* payload, an empty one included.                                         *)
C17_OutcomeExclusive ==
    opc = "done" =>
        \/ result.success /\ result.id # None
        \/ ~result.success /\ result.id = None /\ result.diagnostics # {}

(* C18: within a record the order request comes before its line          *)
(* requests, line requests follow the list order, and none is made unless  *)
(* the order request returned an order id; every request of a record       *)
(* comes before the first request of the next record.                      *)
InOrder(a, b) == a[1] < b[1] \/ (a[1] = b[1] /\ a[2] < b[2])

C18_Ordering ==
    /\ \A i \in 1..(Len(issued) - 1) : InOrder(issued[i], issued[i + 1])
    /\ \A i \in 1..Len(issued) :
          issued[i][2] > 0 =>
              \E j \in 1..(i - 1) : issued[j] = <<issued[i][1], 0>>
    /\ (\E i \in 1..Len(requests) : requests[i] > 0) =>
          (order_id # None /\ order_response.kind = "returned")

C18_Witness ==
    /\ record_no = 2
    /\ opc = "done"
    /\ issued = <<<<1, 0>>, <<1, 1>>, <<1, 2>>, <<2, 0>>, <<2, 1>>>>
    /\ SubmissionFailed(line_results[1])

(* C20: a line_items string that does not parse is mapped to an empty     *)
(* list and the record goes on: the order is submitted, no line request is *)
(* made, and the outcome is success with the order id when the order was   *)
(* created.  Whatever preprocess_record hands on as _line_items is a list  *)
(* of line-item records.                                                   *)
LineItemRecords(line_items) ==
    /\ line_items.kind = "list"
    /\ \A i \in 1..Len(line_items.items) : line_items.items[i] = "dict"

C20_UnparsableLineItems ==
    (record.line_items.kind = "bad_json" /\ payload # None) =>
        /\ Get(payload)._line_items = List(<<>>)
        /\ opc = "done" =>
              /\ requests = <<0>>
              /\ order_id # None => result = Outcome(order_id, TRUE, {})
              /\ order_id = None => ~result.success

C20_MalformedLineItems ==
    /\ C20_UnparsableLineItems
    /\ payload # None => LineItemRecords(Get(payload)._line_items)

(* C21: a date that names its offset reaches the payload unchanged, a     *)
(* date ending in Z has the Z replaced by +00:00, and a date with no zone  *)
(* is sent as the same time with +00:00.                                   *)
ClaimedDate(c) ==
    IF c.zone = "offset" THEN c.value
    ELSE IF c.zone = "Z"
    THEN Str(SubSeq(c.value.chars, 1, Len(c.value.chars) - 1) \o UtcOffset)
    ELSE Str(c.utc \o UtcOffset)

C21_DateNormalization ==
    opc = "mapped" =>
        \A c \in DateCases :
            record.fields["OrderDate"] = c.value =>
                Get(payload).fields.orderedDate = ClaimedDate(c)

(* C25: when a request of the record, the order's or a line's, raises the *)
(* missing-refresh_token error, no further request is attempted for the    *)
(* record and the record is not reported as a success.                     *)
ConfigurationError(o) == o.kind = "raised" /\ o.err = "RuntimeError"

C25_ConfigurationErrorSurfaces ==
    /\ ConfigurationError(order_response) =>
          /\ requests = <<0>>
          /\ opc = "done" /\ ~result.success
    /\ \A i \in 1..Len(line_results) :
          ConfigurationError(line_results[i]) =>
              /\ \A k \in 1..Len(requests) : requests[k] <= i
              /\ opc = "done" => ~result.success

(* C26: in the order payload every optional field is either absent or    *)
(* carries a value that is not null, not empty, and not the string form of *)
(* a missing value.                                                        *)
Sendable(value) ==
    \/ value = Absent
    \/ /\ value.type # "NoneType"
       /\ value.chars # <<>>
       /\ value.chars # <<"N", "o", "n", "e">>

C26_OptionalFieldsOmitted ==
    opc = "mapped" =>
        \A key \in DOMAIN Get(payload).fields : Sendable(Get(payload).fields[key])

----------------------------------------------------------------------------
(* C22: once _request has made an HTTP attempt, whether it ended with a   *)
(* response or with a failure, last_request_time is the time that attempt  *)
(* ended, from then until the next attempt.                                *)
C22_LastRequestTimeUpdated ==
    http_end # None => last_request_time = Get(http_end)

(* C27: the refresh POST sent from inside a request attempt goes through *)
(* the rate gate like a request to the resource API: it is recorded in     *)
(* last_request_time, and the resource request that follows it starts at   *)
(* least MIN_REQUEST_INTERVAL after it.  With no 429 from the OAuth        *)
(* endpoint the POST starts at request_time.                               *)
C27_SingleChokepoint ==
    /\ (rpc = "headers" /\ token_posts > 0) => last_request_time >= request_time
    /\ (token_posts > 0 /\ http_start # None /\ Get(http_start) >= request_time)
          => Get(http_start) - request_time >= MIN_REQUEST_INTERVAL

(* C4: any two consecutive HTTP requests that _request sends to the        *)
(* resource API start at least MIN_REQUEST_INTERVAL (0.5 s) apart,         *)
(* whatever the earlier one met (a response, a 429, a network error).      *)
C4_RateGate ==
    http_gap # None => Get(http_gap) >= MIN_REQUEST_INTERVAL

(* C7: one request_api call sends at most 5 HTTP requests, never returns a *)
(* 429 response, raises a retried error only once the attempt cap or the   *)
(* 300 s elapsed cap is exhausted, and starts no attempt once 300 s have   *)
(* elapsed.                                                                *)
CapExhausted == rtries = MAX_RETRY_TRIES \/ relapsed >= Sec(MAX_RETRY_TIME)

C7_RetryBound ==
    /\ http_count <= 5
    /\ rtries <= 5
    /\ rpc = "returned" => rret.status # 429
    /\ (rpc = "raised" /\ rret.err \in {"RetriableAPIError", "ReadTimeout"})
          => CapExhausted
    /\ rpc = "headers" => relapsed < Sec(300)

(* C8, as claimed: a timeout or a connection error of an HTTP attempt is   *)
(* retried, and raised to the caller only once a cap is exhausted.         *)
C8_NetworkFailuresRetried ==
    (rpc = "raised" /\ rret.err \in {"ReadTimeout", "ConnectionError"})
        => CapExhausted

(* C8, amended: a read timeout of an HTTP attempt is retried with the      *)
(* bounds of a 429 and raised only once a cap is exhausted; a connection   *)
(* error is never retried, _request raises it to its caller at once.       *)
C8_ReadTimeoutRetried ==
    /\ (rpc = "raised" /\ rret.err = "ReadTimeout") => CapExhausted
    /\ last_attempt.err = "ConnectionError"
          => (rpc = "raised" /\ rret.err = "ConnectionError")

C8_Witness ==
    /\ rpc = "raised"
    /\ rret.err = "ReadTimeout"
    /\ rtries = 5
    /\ http_count = 5

(* C9, as claimed: a response whose status is neither 2xx nor 429 is       *)
(* returned to the caller as a value, after that one HTTP request.         *)
Rejected(a) ==
    a.kind = "response" /\ a.status # 429 /\ ~(200 <= a.status /\ a.status < 300)

----------------------------------------------------------------------------
(* C13: when the provider answers 200 with "access_token not expired",    *)
(* update_access_token returns normally and leaves access_token,           *)
(* refresh_token, the expiry and the persisted file as they were, on every *)
(* such call, also when two follow one another.                            *)
NoopAnswered ==
    /\ apc \in {"returned", "raised"}
    /\ token_response.status = 200
    /\ token_response.body = "not_expired"

C13_NoopLeavesCredentials ==
    NoopAnswered =>
        /\ apc = "returned"
        /\ config = Get(creds_before).config
        /\ file = Get(creds_before).file

C13_Witness ==
    /\ NoopAnswered
    /\ auth_calls = <<"noop">>
    /\ token_posts = 1

(* C14: after update_access_token returns from a successful token         *)
(* response, access_token is the response's, the stored expiry is the time *)
(* the refresh was started plus expires_in (3600 when the response has     *)
(* none), refresh_token is the response's if it has one and unchanged      *)
(* otherwise, and the persisted file equals the configuration.             *)
TokenStored ==
    /\ apc = "returned"
    /\ token_response.status = 200
    /\ token_response.body = "token"

C14_RefreshPostcondition ==
    TokenStored =>
        /\ config.access_token = Some(token_response.access_token)
        /\ config.expires_in =
             Some(utcnow_seconds(request_time)
                  + (IF token_response.expires.kind = "absent" THEN 3600
                     ELSE token_response.expires.n))
        /\ config.refresh_token =
             (IF token_response.refresh_token # None
              THEN token_response.refresh_token
              ELSE Get(creds_before).config.refresh_token)
        /\ file = config

C14_Witness ==
    /\ TokenStored
    /\ atries >= 2
    /\ now > request_time
    /\ token_response.expires = AbsentExpiry
    /\ token_response.refresh_token = None
    /\ config.refresh_token = Some("ref0")

(* C15: when a refresh is needed and refresh_token is absent,             *)
(* update_access_token fails without sending a request to the OAuth        *)
(* endpoint, without a retry or a sleep, and without changing the          *)
(* configuration or the persisted file.                                    *)
RefreshWithoutToken ==
    /\ apc # "idle"
    /\ aret.path # "cached"
    /\ ~Truthy(Get(creds_before).config.refresh_token)

C15_MissingRefreshToken ==
    RefreshWithoutToken =>
        /\ apc = "raised"
        /\ aret.err = "RuntimeError"
        /\ token_posts = 0
        /\ atries = 0
        /\ now = request_time
        /\ config = Get(creds_before).config
        /\ file = Get(creds_before).file

C15_Witness ==
    /\ RefreshWithoutToken
    /\ apc = "raised"
    /\ config.access_token = Some("tok0")
    /\ config.expires_in = Some(BaseTime + TOKEN_BUFFER_SECONDS - 1)

(* C16: a 429 from the OAuth endpoint is retried after the computed wait  *)
(* and is no failure on its first occurrence; one call sends at most 10    *)
(* token requests; when the provider keeps answering 429 the call ends     *)
(* with a failure once 10 attempts or 300 s are used up, and the           *)
(* credentials are as they were.                                           *)
Last429Wait ==
    IF token_response.retry_after = None THEN Sec(60)
    ELSE Sec(Get(token_response.retry_after).n)

C16_RefreshRetryBound ==
    /\ token_posts <= 10
    /\ (token_response.status = 429 /\ atries = 1) => apc = "token_try"
    /\ (token_response.status = 429 /\ apc = "token_try")
          => now - astart >= Last429Wait
    /\ (apc = "raised" /\ aret.err = "RateLimitError") =>
          /\ token_response.status = 429
          /\ atries = 10 \/ now - astart >= Sec(300)
          /\ config = Get(creds_before).config
          /\ file = Get(creds_before).file

C16_Witness ==
    /\ apc = "raised"
    /\ aret.err = "RateLimitError"
    /\ atries = 10
    /\ token_posts = 10
    /\ now - astart < Sec(300)

(* C19: when the OAuth endpoint answers with a status outside 2xx other   *)
(* than 429, update_access_token fails with the error that carries the     *)
(* parsed error body, the credentials are unchanged, and the sink, reading *)
(* its authenticator state again after the call, finds the error body.     *)
RefreshRefused ==
    /\ apc \in {"raised", "idle"}
    /\ token_response.kind = "response"
    /\ token_response.status \notin 200..299
    /\ token_response.status # 429

C19_RefreshFailureDiagnostics ==
    RefreshRefused =>
        /\ aret = Raised("RuntimeError")
        /\ Get(creds_before) = [config |-> config, file |-> file]
        /\ getattr_auth_state(sink_auth_state) = Some(token_response.body)

(* C23: whenever update_access_token is not running the configuration in *)
(* memory equals the credential file; the configuration changes only in a  *)
(* refresh that returns, and a refresh that raises leaves access_token,    *)
(* refresh_token and the expiry as they were.                              *)
C23_CredentialsConsistent ==
    /\ apc # "token_try" => config = file
    /\ apc = "raised" => config = Get(creds_before).config
    /\ (apc = "returned" /\ config # Get(creds_before).config)
          => aret.path = "refreshed"

(* C24: no POST goes to the OAuth endpoint while the cached token is good *)
(* (present, with at least 120 s left); update_access_token is entered     *)
(* only as part of a request attempt, once per attempt; and once a refresh *)
(* has stored a token, the later attempts of this and of later calls send  *)
(* that token without asking again.                                        *)
TokenGood(cfg, t) ==
    /\ Truthy(cfg.access_token)
    /\ cfg.expires_in # None
    /\ Get(cfg.expires_in) - utcnow_seconds(t) >= 120

C24_LazyRefresh ==
    /\ [](/\ token_posts > 0 => ~TokenGood(Get(creds_before).config, request_time)
          /\ (rpc = "headers" /\ apc = "returned" /\ aret.path = "cached")
                => (TokenGood(config, now) /\ aret.token = config.access_token)
          /\ \A i \in 1..Len(auth_calls) : \A j \in (i + 1)..Len(auth_calls) :
                auth_calls[i] = "refreshed" => auth_calls[j] = "cached")
    /\ [][(apc = "idle" /\ apc' # "idle")
            => (rpc = "try" /\ rpc' = "headers" /\ rtries' = rtries + 1)]_vars

C24_Witness ==
    /\ rcalls = 1
    /\ rpc = "headers"
    /\ apc = "returned"
    /\ aret.path = "cached"
    /\ Len(auth_calls) >= 2
    /\ auth_calls[1] = "refreshed"

----------------------------------------------------------------------------
(* C5, as claimed: whenever auth_headers returns, the token in the header  *)
(* satisfies is_token_valid at that moment, on every return path.          *)
C5_ReturnedTokenValid ==
    apc = "returned" =>
        /\ aret.token = config.access_token
        /\ is_token_valid(config, now)

(* C5, amended: whenever auth_headers returns, the header carries the      *)
(* access_token then in the configuration, and that token satisfies        *)
(* is_token_valid exactly when no refresh was needed, or a refresh stored  *)
(* a token whose expiry, request_time + expires_in, lies at least 120 s    *)
(* after the time of the return; on the no-op path it does not.            *)
C5_ReturnedTokenValidIff ==
    apc = "returned" =>
        /\ aret.token = config.access_token
        /\ is_token_valid(config, now) <=>
             \/ aret.path = "cached"
             \/ /\ aret.path = "refreshed"
                /\ utcnow_seconds(request_time) + aret.expires_used
                     - utcnow_seconds(now) >= 120

C5_Witness ==
    /\ apc = "returned"
    /\ aret.path = "refreshed"
    /\ atries >= 2
    /\ now > request_time
    /\ is_token_valid(config, now)

----------------------------------------------------------------------------
(* C6: is_token_valid returns true exactly when access_token is present,   *)
(* expires_in is present and expires_in - now >= 120 seconds; so it is     *)
(* false at now + 119 and true at now + 120, and false whenever either     *)
(* field is absent.                                                        *)
C6_TokenValidity ==
    valid_out # None =>
        Get(valid_out) =
            (/\ Truthy(config.access_token)
             /\ config.expires_in # None
             /\ Get(config.expires_in) - utcnow_seconds(now) >= 120)

C6_Witness ==
    /\ valid_out = Some(TRUE)
    /\ Get(config.expires_in) - utcnow_seconds(now) = 120

(* C10: both parsers turn an integer Retry-After into that many seconds, a *)
(* future HTTP date into date - now (to the second), and an absent or      *)
(* unparsable value into 60 seconds.                                       *)
RetryAfterClaim(w) ==
    IF retry_after = None \/ Get(retry_after).kind \in {"empty", "garbage"}
    THEN w = Sec(60)
    ELSE IF Get(retry_after).kind = "int"
    THEN w = Sec(Get(retry_after).n)
    ELSE LET delta == Sec(Get(retry_after).n) - now
         IN  delta > 0 => (w <= delta /\ delta - w < TicksPerSecond)

C10_RetryAfterParsing ==
    /\ wait_out.auth # None => RetryAfterClaim(Get(wait_out.auth))
    /\ wait_out.client # None => RetryAfterClaim(Get(wait_out.client))

====
